---- MODULE Spec2Model ----
(***************************************************************************)
(* Model of src/talk_with_csv.py: the Submit Query handler and the         *)
(* functions it calls (csv_tool, ask_agent, call_gemini_api,               *)
(* decode_response, write_answer).                                         *)
(*                                                                         *)
(* Text (a Python str) is a sequence of lexemes.  A lexeme is either one   *)
(* structural character ("{", "[", a quote, a blank, a digit ...) or an    *)
(* indivisible run of letters ("answer", "null", a fixed message).         *)
(* A Python value produced by json.loads is a record [t, s, keys, kids].   *)
(***************************************************************************)
EXTENDS Naturals, Sequences, FiniteSets, TLC

VARIABLES pc, data, query, response, decoded_response, screen, error, calls, api

vars == <<pc, data, query, response, decoded_response, screen, error, calls, api>>

-----------------------------------------------------------------------------
(* Bounds of the model *)

\* longest free-form reply text (in lexemes) the model enumerates
MaxLen == 3
\* most column names, and most slots per row, in a generated chart/table payload
MaxCols == 2
\* most rows in a generated chart/table payload
MaxRows == 2

-----------------------------------------------------------------------------
(* Python values *)

Null == [t |-> "null", s |-> <<>>, keys |-> <<>>, kids |-> <<>>]
Num(d) == [t |-> "num", s |-> d, keys |-> <<>>, kids |-> <<>>]
Str(c) == [t |-> "str", s |-> c, keys |-> <<>>, kids |-> <<>>]
Arr(e) == [t |-> "arr", s |-> <<>>, keys |-> <<>>, kids |-> e]
Obj(k, v) == [t |-> "obj", s |-> <<>>, keys |-> k, kids |-> v]
\* float('nan'), which json.loads returns for the text NaN
NaN == Num(<<"NaN">>)

\* a one-word str
Word(w) == Str(<<w>>)

Range(q) == {q[i] : i \in 1..Len(q)}

\* position of key k in the dict d (0 when absent)
KeyIndex(d, k) ==
  IF \E i \in 1..Len(d.keys) : d.keys[i] = k
  THEN CHOOSE i \in 1..Len(d.keys) : d.keys[i] = k
  ELSE 0

\* dict[k] = v : a repeated key keeps its first position and takes the last value
DictSet(d, k, v) ==
  LET i == KeyIndex(d, k)
  IN IF i = 0
     THEN Obj(Append(d.keys, k), Append(d.kids, v))
     ELSE Obj(d.keys, [d.kids EXCEPT ![i] = v])

-----------------------------------------------------------------------------
(* json.loads: the scanner of the standard library, on lexemes *)

Digit == <<"1", "2", "3", "4", "5", "6", "7", "8", "9">>
Digits == {Digit[i] : i \in 1..Len(Digit)}
Blank == " "
Quote == "\""

NoParse == [ok |-> FALSE, val |-> Null, pos |-> 0]
Parsed(v, p) == [ok |-> TRUE, val |-> v, pos |-> p]

RECURSIVE SkipWs(_, _)
SkipWs(s, i) ==
  IF i <= Len(s) /\ s[i] = Blank THEN SkipWs(s, i + 1) ELSE i

\* index of the first quote at or after i (0 when the string is unterminated)
RECURSIVE NextQuote(_, _)
NextQuote(s, i) ==
  IF i > Len(s) THEN 0
  ELSE IF s[i] = Quote THEN i
  ELSE NextQuote(s, i + 1)

\* index just past the run of digits starting at i
RECURSIVE DigitsEnd(_, _)
DigitsEnd(s, i) ==
  IF i <= Len(s) /\ s[i] \in Digits THEN DigitsEnd(s, i + 1) ELSE i

\* scanstring: i is the index just past the opening quote
ScanString(s, i) ==
  LET j == NextQuote(s, i)
  IN IF j = 0 THEN NoParse ELSE Parsed(Str(SubSeq(s, i, j - 1)), j + 1)

RECURSIVE ParseValue(_, _)
RECURSIVE ParseElems(_, _, _)
RECURSIVE ParseMembers(_, _, _)

\* JSONArray: i is the index just past "["
ParseArray(s, i) ==
  LET j == SkipWs(s, i)
  IN IF j <= Len(s) /\ s[j] = "]" THEN Parsed(Arr(<<>>), j + 1)
     ELSE ParseElems(s, j, <<>>)

\* the loop of JSONArray: i is where the next element must start
ParseElems(s, i, acc) ==
  LET r == ParseValue(s, i)
  IN IF ~r.ok THEN NoParse
     ELSE LET j == SkipWs(s, r.pos)
          IN IF j > Len(s) THEN NoParse
             ELSE IF s[j] = "]" THEN Parsed(Arr(Append(acc, r.val)), j + 1)
             ELSE IF s[j] = "," THEN ParseElems(s, SkipWs(s, j + 1), Append(acc, r.val))
             ELSE NoParse

\* JSONObject: i is the index just past "{"
ParseObject(s, i) ==
  LET j == SkipWs(s, i)
  IN IF j > Len(s) THEN NoParse
     ELSE IF s[j] = "}" THEN Parsed(Obj(<<>>, <<>>), j + 1)
     ELSE IF s[j] = Quote THEN ParseMembers(s, j + 1, Obj(<<>>, <<>>))
     ELSE NoParse

\* the loop of JSONObject: i is the index just past the key's opening quote
ParseMembers(s, i, acc) ==
  LET k == ScanString(s, i)
  IN IF ~k.ok THEN NoParse
     ELSE LET c == SkipWs(s, k.pos)
          IN IF c > Len(s) \/ s[c] # ":" THEN NoParse
             ELSE LET r == ParseValue(s, SkipWs(s, c + 1))
                  IN IF ~r.ok THEN NoParse
                     ELSE LET j == SkipWs(s, r.pos)
                              d == DictSet(acc, k.val.s, r.val)
                          IN IF j > Len(s) THEN NoParse
                             ELSE IF s[j] = "}" THEN Parsed(d, j + 1)
                             ELSE IF s[j] = ","
                                  THEN LET q == SkipWs(s, j + 1)
                                       IN IF q <= Len(s) /\ s[q] = Quote
                                          THEN ParseMembers(s, q + 1, d)
                                          ELSE NoParse
                             ELSE NoParse

\* scan_once: the value starting exactly at i
ParseValue(s, i) ==
  IF i > Len(s) THEN NoParse
  ELSE IF s[i] = Quote THEN ScanString(s, i + 1)
  ELSE IF s[i] = "{" THEN ParseObject(s, i + 1)
  ELSE IF s[i] = "[" THEN ParseArray(s, i + 1)
  ELSE IF s[i] = "null" THEN Parsed(Null, i + 1)
  ELSE IF s[i] = "NaN" THEN Parsed(NaN, i + 1)
  ELSE IF s[i] \in Digits
       THEN LET e == DigitsEnd(s, i) IN Parsed(Num(SubSeq(s, i, e - 1)), e)
  ELSE NoParse

\* JSONDecoder.decode: blanks, one value, blanks, end of text
json_loads(s) ==
  LET r == ParseValue(s, SkipWs(s, 1))
  IN IF ~r.ok THEN NoParse
     ELSE IF SkipWs(s, r.pos) = Len(s) + 1 THEN r
     ELSE NoParse

-----------------------------------------------------------------------------
(* Fixed texts of the program *)

MsgUnexpected == "Unexpected response structure from the Gemini API."
MsgContact == "An error occurred while contacting the Gemini API."
MsgInvalid == "Invalid response format from the Gemini API."
MsgUpload == "Please upload a CSV file."
MsgTable == "Generated Table:"
MsgBar == "Generated Bar Chart:"
MsgLine == "Generated Line Chart:"
ErrTable == "Error displaying table: "
ErrBar == "Error creating bar chart: "
ErrLine == "Error creating line chart: "
Preamble == "Let's decode the way to respond to the queries. ... Here's the query to work on: "

\* the text '{"answer": "<msg>"}' as the source spells it
AnswerLiteral(msg) ==
  <<"{", Quote, "answer", Quote, ":", Blank, Quote, msg, Quote, "}">>

StartsWith(s, c) == Len(s) >= 1 /\ s[1] = c

-----------------------------------------------------------------------------
(* call_gemini_api, ask_agent, decode_response *)

\* reply is what generate_content does: it answers with a text, answers with an
\* object that has no 'text', or raises
call_gemini_api(prompt, reply) ==
  IF reply.outcome = "raise" THEN AnswerLiteral(MsgContact)
  ELSE IF reply.outcome = "text" THEN reply.text
  ELSE AnswerLiteral(MsgUnexpected)

ask_agent(df, q, reply) == call_gemini_api(<<Preamble>> \o q, reply)

\* the two branches the other way round: text that starts with "{" is parsed
decode_response_swapped(r) ==
  IF StartsWith(r, "{")
  THEN LET p == json_loads(r)
       IN IF p.ok THEN p.val ELSE Obj(<<<<"answer">>>>, <<Word(MsgInvalid)>>)
  ELSE Obj(<<<<"answer">>>>, <<Str(r)>>)

\* the parsed value wrapped as an answer
decode_response_wrap(r) ==
  IF ~StartsWith(r, "{")
  THEN LET p == json_loads(r)
       IN IF p.ok THEN Obj(<<<<"answer">>>>, <<p.val>>)
          ELSE Obj(<<<<"answer">>>>, <<Word(MsgInvalid)>>)
  ELSE Obj(<<<<"answer">>>>, <<Str(r)>>)

\* every text parsed, whatever it starts with
decode_response_parse_all(r) ==
  LET p == json_loads(r)
  IN IF p.ok THEN p.val ELSE Obj(<<<<"answer">>>>, <<Word(MsgInvalid)>>)

decode_response(r) ==
  IF ~StartsWith(r, "{")
  THEN LET p == json_loads(r)
       IN IF p.ok THEN p.val ELSE Obj(<<<<"answer">>>>, <<Word(MsgInvalid)>>)
  ELSE Obj(<<<<"answer">>>>, <<Str(r)>>)

-----------------------------------------------------------------------------
(* Python operations write_answer applies to the decoded value *)

Ok(v) == [exc |-> "", val |-> v]
Raise(e) == [exc |-> e, val |-> Null]

\* the types on which `w in x` is defined
CanContain(x) == x.t \in {"obj", "arr", "str"}

\* `w in x` for a one-word str w: key of a dict, element of a list, part of a str
Contains(x, w) ==
  IF x.t = "obj" THEN <<w>> \in Range(x.keys)
  ELSE IF x.t = "arr" THEN Word(w) \in Range(x.kids)
  ELSE IF x.t = "str" THEN w \in Range(x.s)
  ELSE FALSE

\* x[w] for a str w
GetKey(x, w) ==
  IF x.t = "obj"
  THEN IF KeyIndex(x, <<w>>) = 0 THEN Raise("KeyError") ELSE Ok(x.kids[KeyIndex(x, <<w>>)])
  ELSE Raise("TypeError")

\* x[i] for an int i >= 0
GetAt(x, i) ==
  IF x.t = "arr"
  THEN IF i < Len(x.kids) THEN Ok(x.kids[i + 1]) ELSE Raise("IndexError")
  ELSE IF x.t = "str"
  THEN IF i < Len(x.s) THEN Ok(Word(x.s[i + 1])) ELSE Raise("IndexError")
  ELSE IF x.t = "obj" THEN Raise("KeyError")
  ELSE Raise("TypeError")

\* the items `for e in x` yields, as a list
Iterate(x) ==
  IF x.t = "arr" THEN Ok(x)
  ELSE IF x.t = "str" THEN Ok(Arr([i \in 1..Len(x.s) |-> Word(x.s[i])]))
  ELSE IF x.t = "obj" THEN Ok(Arr([i \in 1..Len(x.keys) |-> Str(x.keys[i])]))
  ELSE Raise("TypeError")

-----------------------------------------------------------------------------
(* pandas.DataFrame as write_answer builds it *)

\* a frame: the labels of its data columns, the cells of each data column, and
\* the label and cells of the index column (none before set_index)
Frame(l, c, n, x) == [labels |-> l, cols |-> c, index_name |-> n, index |-> x]
NoFrame == Frame(<<>>, <<>>, Null, <<>>)

Max(S) == CHOOSE m \in S : \A n \in S : n <= m

\* pd.DataFrame(data, columns=columns) for a list of column labels and a list
\* that holds rows (lists, ragged rows are padded) or scalars (one column)
DataFrame(d, columns) ==
  IF columns.t # "arr" THEN Raise("TypeError")
  ELSE IF d.t # "arr" THEN Raise("ValueError")
  ELSE LET rows == d.kids
           n == Len(rows)
           w == Len(columns.kids)
       IN IF n = 0
          THEN Ok(Frame(columns.kids, [j \in 1..w |-> <<>>], Null, <<>>))
          ELSE IF \A i \in 1..n : rows[i].t = "arr"
          THEN IF Max({Len(rows[i].kids) : i \in 1..n}) # w THEN Raise("ValueError")
               ELSE Ok(Frame(columns.kids,
                             [j \in 1..w |->
                                [i \in 1..n |-> IF j <= Len(rows[i].kids)
                                                THEN rows[i].kids[j] ELSE Null]],
                             Null, <<>>))
          ELSE IF \A i \in 1..n : rows[i].t \in {"num", "str", "null"}
          THEN IF w # 1 THEN Raise("ValueError")
               ELSE Ok(Frame(columns.kids, <<rows>>, Null, <<>>))
          ELSE Raise("ValueError")

\* [x[i] for x in rows], rows taken from position k on, prepended with acc
RECURSIVE Column(_, _, _, _)
Column(rows, i, k, acc) ==
  IF k > Len(rows) THEN Ok(Arr(acc))
  ELSE LET c == GetAt(rows[k], i)
       IN IF c.exc # "" THEN c ELSE Column(rows, i, k + 1, Append(acc, c.val))

\* position of label l among labels (0 when absent)
LabelIndex(labels, l) ==
  IF \E i \in 1..Len(labels) : labels[i] = l
  THEN CHOOSE i \in 1..Len(labels) : labels[i] = l
  ELSE 0

\* df_data[col] = cells : a repeated label keeps its first position, last cells
FrameSet(f, col, cells) ==
  LET i == LabelIndex(f.labels, col)
  IN IF i = 0
     THEN Frame(Append(f.labels, col), Append(f.cols, cells), Null, <<>>)
     ELSE Frame(f.labels, [f.cols EXCEPT ![i] = cells], Null, <<>>)

\* {col: [x[i] for x in data['data']] for i, col in enumerate(data['columns'])},
\* columns taken from position k on, added to acc
RECURSIVE Transpose(_, _, _, _)
Transpose(payload, cols, k, acc) ==
  IF k > Len(cols) THEN [exc |-> "", val |-> Null, frame |-> acc]
  ELSE LET d == GetKey(payload, "data")
           it == IF d.exc # "" THEN d ELSE Iterate(d.val)
           c == IF it.exc # "" THEN it ELSE Column(it.val.kids, k - 1, 1, <<>>)
       IN IF c.exc # "" THEN [exc |-> c.exc, val |-> Null, frame |-> NoFrame]
          ELSE IF cols[k].t \in {"arr", "obj"}
          THEN [exc |-> "TypeError", val |-> Null, frame |-> NoFrame]
          ELSE Transpose(payload, cols, k + 1, FrameSet(acc, cols[k], c.val.kids))

\* df.set_index(df.columns[0], inplace=True)
set_index(f) ==
  IF Len(f.labels) = 0 THEN [exc |-> "IndexError", val |-> Null, frame |-> NoFrame]
  ELSE [exc |-> "", val |-> Null,
        frame |-> Frame(Tail(f.labels), Tail(f.cols), f.labels[1], f.cols[1])]

\* lines 116-121 and 131-136: the frame handed to st.bar_chart / st.line_chart
ChartFrame(payload) ==
  LET c == GetKey(payload, "columns")
      it == IF c.exc # "" THEN c ELSE Iterate(c.val)
  IN IF it.exc # "" THEN [exc |-> it.exc, val |-> Null, frame |-> NoFrame]
     ELSE LET t == Transpose(payload, it.val.kids, 1, NoFrame)
          IN IF t.exc # "" THEN t ELSE set_index(t.frame)

\* lines 104-106: the frame handed to st.table
TableFrame(payload) ==
  LET c == GetKey(payload, "columns")
      d == GetKey(payload, "data")
  IN IF c.exc # "" THEN [exc |-> c.exc, val |-> Null, frame |-> NoFrame]
     ELSE IF d.exc # "" THEN [exc |-> d.exc, val |-> Null, frame |-> NoFrame]
     ELSE LET f == DataFrame(d.val, c.val)
          IN IF f.exc # "" THEN [exc |-> f.exc, val |-> Null, frame |-> NoFrame]
             ELSE [exc |-> "", val |-> Null, frame |-> f.val]

-----------------------------------------------------------------------------
(* write_answer *)

\* one thing put on the page: kind says which call put it there (st.write of an
\* answer, a heading, an error text or the upload prompt; st.table; st.bar_chart;
\* st.line_chart), path which branch of the program
Out(k, p, v, f) == [kind |-> k, path |-> p, val |-> v, frame |-> f]

Paths == <<"answer", "table", "bar", "line">>

\* lines 98-99; an exception here is not caught
AnswerPath(rd) ==
  IF ~Contains(rd, "answer") THEN [out |-> <<>>, exc |-> ""]
  ELSE LET a == GetKey(rd, "answer")
       IN IF a.exc # "" THEN [out |-> <<>>, exc |-> a.exc]
          ELSE [out |-> <<Out("answer", "answer", a.val, NoFrame)>>, exc |-> ""]

\* a try block of lines 102-141: the frame is built, the heading written and the
\* widget called; whatever is raised on the way becomes an error text
Guarded(built, path, heading, widget, errtext, lib) ==
  IF built.exc # ""
  THEN <<Out("error", path, Str(<<errtext, built.exc>>), NoFrame)>>
  ELSE IF path \in lib
  THEN <<Out("heading", path, Word(heading), NoFrame),
         Out("error", path, Str(<<errtext, "LibraryError">>), NoFrame)>>
  ELSE <<Out("heading", path, Word(heading), NoFrame),
         Out(widget, path, Null, built.frame)>>

\* the frame a path builds from response_dict[path]
Build(rd, path) ==
  LET p == GetKey(rd, path)
  IN IF p.exc # "" THEN [exc |-> p.exc, val |-> Null, frame |-> NoFrame]
     ELSE IF path = "table" THEN TableFrame(p.val)
     ELSE ChartFrame(p.val)

\* lines 102-111
TablePath(rd, lib) ==
  IF ~Contains(rd, "table") THEN <<>>
  ELSE Guarded(Build(rd, "table"), "table", MsgTable, "table", ErrTable, lib)

\* lines 114-126
BarPath(rd, lib) ==
  IF ~Contains(rd, "bar") THEN <<>>
  ELSE Guarded(Build(rd, "bar"), "bar", MsgBar, "bar_chart", ErrBar, lib)

\* lines 129-141
LinePath(rd, lib) ==
  IF ~Contains(rd, "line") THEN <<>>
  ELSE Guarded(Build(rd, "line"), "line", MsgLine, "line_chart", ErrLine, lib)

\* bar drawn before the table
write_answer_bar_first(rd, lib) ==
  IF ~CanContain(rd) THEN [out |-> <<>>, exc |-> "TypeError"]
  ELSE LET a == AnswerPath(rd)
       IN IF a.exc # "" THEN a
          ELSE [out |-> a.out \o BarPath(rd, lib) \o TablePath(rd, lib) \o LinePath(rd, lib),
                exc |-> ""]

\* the table branch without its try: what it raises ends write_answer
write_answer_table_unguarded(rd, lib) ==
  IF ~CanContain(rd) THEN [out |-> <<>>, exc |-> "TypeError"]
  ELSE LET a == AnswerPath(rd)
           b == Build(rd, "table")
       IN IF a.exc # "" THEN a
          ELSE IF Contains(rd, "table") /\ b.exc # "" THEN [out |-> a.out, exc |-> b.exc]
          ELSE [out |-> a.out \o TablePath(rd, lib) \o BarPath(rd, lib) \o LinePath(rd, lib),
                exc |-> ""]

\* lib: the paths whose widget call (st.table, st.bar_chart, st.line_chart)
\* raises for the frame it is given
write_answer(rd, lib) ==
  IF ~CanContain(rd) THEN [out |-> <<>>, exc |-> "TypeError"]
  ELSE LET a == AnswerPath(rd)
       IN IF a.exc # "" THEN a
          ELSE [out |-> a.out \o TablePath(rd, lib) \o BarPath(rd, lib) \o LinePath(rd, lib),
                exc |-> ""]

-----------------------------------------------------------------------------
(* What the model can answer: free text, and serialised JSON values *)

\* json.dumps: sp is what follows ":" and "," (nothing, or a blank)
RECURSIVE Encode(_, _)
RECURSIVE EncodeItems(_, _, _, _)
EncodeItems(v, sp, k, acc) ==
  IF k > Len(v.kids) THEN acc
  ELSE LET sep == IF k = 1 THEN <<>> ELSE <<",">> \o sp
           key == IF v.t = "obj" THEN <<Quote>> \o v.keys[k] \o <<Quote, ":">> \o sp
                  ELSE <<>>
       IN EncodeItems(v, sp, k + 1, acc \o sep \o key \o Encode(v.kids[k], sp))

Encode(v, sp) ==
  IF v.t = "null" THEN <<"null">>
  ELSE IF v.t = "num" THEN v.s
  ELSE IF v.t = "str" THEN <<Quote>> \o v.s \o <<Quote>>
  ELSE IF v.t = "arr" THEN <<"[">> \o EncodeItems(v, sp, 1, <<>>) \o <<"]">>
  ELSE <<"{">> \o EncodeItems(v, sp, 1, <<>>) \o <<"}">>

Alphabet == {"{", "}", "[", "]", ":", ",", Quote, Blank, "1", "null", "NaN", "answer"}
Texts == UNION {[1..n -> Alphabet] : n \in 0..MaxLen}

ColumnNames == {"A", "B"}
ColumnLists == UNION {[1..n -> ColumnNames] : n \in 0..MaxCols}
Shapes == UNION {[1..m -> 0..MaxCols] : m \in 0..MaxRows}

\* the cell in slot c of row r: a category in the first slot, a number elsewhere
Cell(r, c) == IF c = 1 THEN Word(Digit[r]) ELSE Num(<<Digit[r], Digit[c]>>)
Labels(cl) == Arr([i \in 1..Len(cl) |-> Word(cl[i])])
Rows(shape) == Arr([r \in 1..Len(shape) |-> Arr([c \in 1..shape[r] |-> Cell(r, c)])])
\* "data": [25, 24, 10, ...] as the prompt's bar and line templates spell it
Flat == Arr([r \in 1..MaxRows |-> Num(<<Digit[r]>>)])

Payload(cl, d) == Obj(<<<<"columns">>, <<"data">>>>, <<Labels(cl), d>>)

Payloads ==
  {Payload(cl, d) : cl \in ColumnLists, d \in {Rows(sh) : sh \in Shapes} \cup {Flat}}
    \cup {Obj(<<<<"columns">>>>, <<Labels(cl)>>) : cl \in ColumnLists}
    \cup {Obj(<<<<"data">>>>, <<Rows(sh)>>) : sh \in Shapes}
    \cup {Num(<<"1">>)}

\* a mapping with one key
Single == {Obj(<<<<k>>>>, <<p>>) : k \in {"table", "bar", "line"}, p \in Payloads}

Absent == [t |-> "absent", s |-> <<>>, keys |-> <<>>, kids |-> <<>>]
Present(p) == p[2].t # "absent"
Reverse(q) == [i \in 1..Len(q) |-> q[Len(q) + 1 - i]]

\* a few payloads for the mappings that carry several keys at once
SomePayloads ==
  { Payload(<<"A", "B">>, Rows(<<2, 2>>)),
    Payload(<<"A", "B">>, Arr(<<Num(<<"1">>), Num(<<"2">>)>>)),
    Payload(<<"A">>, Rows(<<2>>)),
    Obj(<<<<"columns">>>>, <<Labels(<<"A">>)>>),
    Num(<<"1">>) }

Several ==
  LET opt == SomePayloads \cup {Absent}
      dict(pairs) == Obj([i \in 1..Len(pairs) |-> <<pairs[i][1]>>],
                         [i \in 1..Len(pairs) |-> pairs[i][2]])
  IN UNION {
       LET pairs == SelectSeq(<< <<"answer", a>>, <<"table", t>>,
                                 <<"bar", b>>, <<"line", l>> >>, Present)
       IN {dict(pairs), dict(Reverse(pairs))}
       : a \in {Absent, Word("x")}, t \in opt, b \in opt, l \in opt }

\* plain answers: the one the prompt spells out, and one that happens to read
\* like the page's own upload prompt
Plain ==
  { Obj(<<<<"answer">>>>, <<Word("I do not know.")>>),
    Obj(<<<<"answer">>>>, <<Word(MsgUpload)>>) }

JsonTexts ==
  {pad \o Encode(v, sp) : pad \in {<<>>, <<Blank>>}, sp \in {<<>>, <<Blank>>},
                          v \in Several \cup Plain}
    \cup {<<Blank>> \o Encode(v, <<>>) : v \in Single}

Queries == {<<>>, <<"x">>}
Widgets == {"table", "bar", "line"}

-----------------------------------------------------------------------------
(* The page: one run of the script per widget event *)

Blanked ==
  /\ response' = <<>>
  /\ decoded_response' = Null
  /\ screen' = <<>>
  /\ error' = ""
  /\ calls' = <<>>
  /\ api' = ""

Init ==
  /\ pc = "shown"
  /\ data = FALSE
  /\ query = <<>>
  /\ response = <<>>
  /\ decoded_response = Null
  /\ screen = <<>>
  /\ error = ""
  /\ calls = <<>>
  /\ api = ""

\* line 148: a file is put into, or taken out of, the uploader; the script runs
\* with the button not pressed
Upload ==
  /\ pc # "submit"
  /\ data' = ~data
  /\ pc' = "shown"
  /\ Blanked
  /\ UNCHANGED query

\* line 149: the message is edited; the script runs with the button not pressed
TypeQuery ==
  /\ pc # "submit"
  /\ \E q \in Queries : q # query /\ query' = q
  /\ pc' = "shown"
  /\ Blanked
  /\ UNCHANGED data

\* the button is pressed: the script runs lines 144-151 on an empty page
Press ==
  /\ pc # "submit"
  /\ pc' = "submit"
  /\ Blanked
  /\ UNCHANGED <<data, query>>

\* lines 152-159 for a given reply of the model and given widget failures
Answered(reply, lib) ==
  LET text == ask_agent(data, query, reply)
      rd == decode_response(text)
      w == write_answer(rd, lib)
  IN /\ response' = text
     /\ decoded_response' = rd
     /\ screen' = w.out
     /\ error' = w.exc
     /\ calls' = <<"csv_tool", "ask_agent", "call_gemini_api", "decode_response",
                   "write_answer">>
     /\ api' = reply.outcome

\* lines 161-162
Prompted ==
  /\ screen' = <<Out("prompt", "upload", Word(MsgUpload), NoFrame)>>
  /\ response' = <<>>
  /\ decoded_response' = Null
  /\ error' = ""
  /\ calls' = <<>>
  /\ api' = ""

\* the handler without the test of line 152
SubmitQuery_no_check ==
  /\ pc = "submit"
  /\ pc' = "done"
  /\ UNCHANGED <<data, query>>
  /\ \/ \E t \in Texts : Answered([outcome |-> "text", text |-> t], {})
     \/ Prompted

\* lines 151-162
SubmitQuery ==
  /\ pc = "submit"
  /\ pc' = "done"
  /\ UNCHANGED <<data, query>>
  /\ IF data
     THEN \/ \E t \in Texts : Answered([outcome |-> "text", text |-> t], {})
          \/ \E t \in JsonTexts, lib \in SUBSET Widgets :
               Answered([outcome |-> "text", text |-> t], lib)
          \/ \E o \in {"no_text", "raise"} : Answered([outcome |-> o, text |-> <<>>], {})
     ELSE Prompted

Next == Upload \/ TypeQuery \/ Press \/ SubmitQuery

Spec == Init /\ [][Next]_vars

-----------------------------------------------------------------------------
(* The JSON grammar, stated on the text: what a text denotes, if anything *)

\* t without its leading and trailing blanks
Strip(t) ==
  LET solid == {i \in 1..Len(t) : t[i] # Blank}
  IN IF solid = {} THEN <<>>
     ELSE SubSeq(t, CHOOSE i \in solid : \A j \in solid : i <= j,
                    CHOOSE i \in solid : \A j \in solid : j <= i)

\* the str a string literal denotes
Literal(s) ==
  IF Len(s) >= 2 /\ s[1] = Quote /\ s[Len(s)] = Quote
       /\ \A i \in 2..(Len(s) - 1) : s[i] # Quote
  THEN {Str(SubSeq(s, 2, Len(s) - 1))}
  ELSE {}

\* the dict a list of <<key, value>> members denotes: one entry per key, placed
\* where the key first occurs, holding the value of its last occurrence
DictOf(m) ==
  LET first == {i \in 1..Len(m) : \A j \in 1..(i - 1) : m[j][1] # m[i][1]}
      last(i) == CHOOSE j \in 1..Len(m) :
                   m[j][1] = m[i][1] /\ \A k \in (j + 1)..Len(m) : m[k][1] # m[i][1]
      kept == SelectSeq([i \in 1..Len(m) |-> <<i, i \in first>>], LAMBDA e : e[2])
  IN Obj([i \in 1..Len(kept) |-> m[kept[i][1]][1]],
         [i \in 1..Len(kept) |-> m[last(kept[i][1])][2]])

RECURSIVE Denotes(_)
RECURSIVE Items(_)
RECURSIVE Members(_)

\* the lists of values that "v , v , ... , v" (at least one v) denotes
Items(t) ==
  {<<v>> : v \in Denotes(Strip(t))}
    \cup UNION { LET head == Denotes(Strip(SubSeq(t, 1, k - 1)))
                 IN IF head = {} THEN {}
                    ELSE {<<v>> \o r : v \in head, r \in Items(SubSeq(t, k + 1, Len(t)))}
                 : k \in {i \in 1..Len(t) : t[i] = ","} }

\* the <<key, value>> pairs that "string : v" denotes
Member(t) ==
  UNION { LET key == Literal(Strip(SubSeq(t, 1, c - 1)))
          IN IF key = {} THEN {}
             ELSE {<<k.s, v>> : k \in key, v \in Denotes(Strip(SubSeq(t, c + 1, Len(t))))}
          : c \in {i \in 1..Len(t) : t[i] = ":"} }

\* the lists of pairs that "member , ... , member" (at least one) denotes
Members(t) ==
  {<<m>> : m \in Member(t)}
    \cup UNION { LET head == Member(SubSeq(t, 1, k - 1))
                 IN IF head = {} THEN {}
                    ELSE {<<m>> \o r : m \in head, r \in Members(SubSeq(t, k + 1, Len(t)))}
                 : k \in {i \in 1..Len(t) : t[i] = ","} }

\* the values the text s, taken without blanks around it, denotes (none or one)
Denotes(s) ==
  IF s = <<"null">> THEN {Null}
  ELSE IF s # <<>> /\ \A i \in 1..Len(s) : s[i] \in Digits THEN {Num(s)}
  ELSE IF Literal(s) # {} THEN Literal(s)
  ELSE IF Len(s) >= 2 /\ s[1] = "[" /\ s[Len(s)] = "]"
       THEN LET inner == SubSeq(s, 2, Len(s) - 1)
            IN IF Strip(inner) = <<>> THEN {Arr(<<>>)} ELSE {Arr(e) : e \in Items(inner)}
  ELSE IF Len(s) >= 2 /\ s[1] = "{" /\ s[Len(s)] = "}"
       THEN LET inner == SubSeq(s, 2, Len(s) - 1)
            IN IF Strip(inner) = <<>> THEN {Obj(<<>>, <<>>)}
               ELSE {DictOf(m) : m \in Members(inner)}
  ELSE {}

\* s is a JSON text
ValidJSON(s) == Denotes(Strip(s)) # {}

-----------------------------------------------------------------------------
(* Properties *)

\* the page shows the outcome of a submission that ran the pipeline
Ran == pc = "done" /\ calls # <<>>

Answer(v) == Obj(<<<<"answer">>>>, <<v>>)

\* the outputs that end a render: an answer, a widget or an error text
Ends(q) == SelectSeq(q, LAMBDA o : o.kind # "heading")
PathsOf(q) == [i \in 1..Len(q) |-> q[i].path]
InKeys(k) == Contains(decoded_response, k)

C3_InvalidIsFixedAnswer ==
  Ran /\ api = "text" /\ ~StartsWith(response, "{")
      /\ Len(response) <= MaxLen /\ ~ValidJSON(response)
    => decoded_response = Answer(Word(MsgInvalid))

\* C4: when the call to the model raises, the decoded result is the answer whose
\* text is exactly the contact-error message
C4_GatewayFailureText ==
  Ran /\ api = "raise" => decoded_response = Answer(Word(MsgContact))

\* C5: for a decoded mapping, the renders are exactly those of the keys present
\* among answer, table, bar, line, one each, in that order
C5_FixedOrder ==
  Ran /\ decoded_response.t = "obj" =>
    /\ error = ""
    /\ PathsOf(Ends(screen)) = SelectSeq(Paths, InKeys)

C5_Witness ==
  /\ Ran /\ decoded_response.t = "obj"
  /\ decoded_response.keys = <<<<"line">>, <<"bar">>, <<"table">>, <<"answer">>>>
  /\ PathsOf(Ends(screen)) = Paths

\* C6: a failure while a table, bar or line frame is built gives one error text
\* of that path, and every later path whose key is present is still attempted
C6_FailureContained ==
  Ran /\ CanContain(decoded_response) /\ AnswerPath(decoded_response).exc = "" =>
    \A i \in 2..4 :
      InKeys(Paths[i]) /\ Build(decoded_response, Paths[i]).exc # "" =>
        /\ error = ""
        /\ \E n \in 1..Len(screen) :
             /\ screen[n].path = Paths[i] /\ screen[n].kind = "error"
             /\ \A m \in 1..Len(screen) : screen[m].path = Paths[i] => m = n
             /\ \A j \in (i + 1)..4 :
                  InKeys(Paths[j]) => \E m \in (n + 1)..Len(screen) : screen[m].path = Paths[j]

C6_Witness ==
  /\ Ran /\ Len(screen) = 3
  /\ screen[1].path = "table" /\ screen[1].kind = "error"
  /\ screen[1].val = Str(<<ErrTable, "ValueError">>)
  /\ screen[3].kind = "bar_chart"

\* C7: with a file uploaded, whatever the reply, the submission raises nothing
\* uncaught and puts at least one output on the page
C7_AlwaysVisible ==
  pc = "done" /\ data => error = "" /\ Len(screen) >= 1

WellFormed(k) ==
  /\ decoded_response.t = "obj" /\ InKeys(k)
  /\ LET p == GetKey(decoded_response, k).val
     IN /\ p.t = "obj" /\ Contains(p, "columns") /\ Contains(p, "data")
        /\ LET c == GetKey(p, "columns").val
               d == GetKey(p, "data").val
           IN /\ c.t = "arr" /\ Len(c.kids) >= 1
              /\ d.t = "arr"
              /\ \A r \in 1..Len(d.kids) :
                   d.kids[r].t = "arr" /\ Len(d.kids[r].kids) >= Len(c.kids)

\* the frame the claim describes: column i holds row[i] of every row, the first
\* column is the index and the others are the series
Described(k) ==
  LET p == GetKey(decoded_response, k).val
      c == GetKey(p, "columns").val.kids
      d == GetKey(p, "data").val.kids
      col(i) == [r \in 1..Len(d) |-> d[r].kids[i]]
  IN Frame([i \in 1..(Len(c) - 1) |-> c[i + 1]],
           [i \in 1..(Len(c) - 1) |-> col(i + 1)],
           c[1], col(1))

\* C9: a well-formed bar or line payload is drawn with the first column as the
\* index and each other column c_i as the series [row[i] for each row]
C9_ChartSeries ==
  Ran => \A k \in {"bar", "line"} :
    WellFormed(k) =>
      \A n \in 1..Len(screen) :
        screen[n].path = k =>
          /\ screen[n].kind = "error" => screen[n].val.s[2] = "LibraryError"
          /\ screen[n].kind \in {"bar_chart", "line_chart"} => screen[n].frame = Described(k)

====
